---- MODULE Spec2Model ----
(***************************************************************************)
(* Operation log store (utils/logger.ts), recovery manager                 *)
(* (utils/recovery.ts) and the Notes / Reminders / Calendar backends of    *)
(* macos-app-mcp, as a state machine over the log files on disk.           *)
(*                                                                         *)
(* Every tool call is one action.  The automation executor and the file    *)
(* system are external: their outcomes are inputs chosen with \E.          *)
(***************************************************************************)
EXTENDS Integers, Sequences, FiniteSets, TLC

(***************************************************************************)
(* Bounds                                                                  *)
(***************************************************************************)
\* number of log entries written in one run
MaxIds == 3
\* number of backend tool calls (create / update / delete) in one run
MaxBackendCalls == 1

(***************************************************************************)
(* Values                                                                  *)
(***************************************************************************)
\* JavaScript `undefined` for a string-valued property
Undef == "<undefined>"

\* process.env.USER
ProcessUser == "me"

Apps == {"notes", "reminders", "calendar", "contacts"}
Operations == {"create", "update", "delete"}

\* a note body larger than the whole log may grow
HugeBody == "<huge body>"

\* snapshot payloads (data.before / data.after); t is the JavaScript type
SnapUndef ==
  [t |-> "undefined", s |-> Undef, text |-> Undef, due |-> Undef,
   dueDate |-> Undef, startDate |-> Undef, endDate |-> Undef,
   calendar |-> Undef, location |-> Undef, completed |-> Undef]
SnapNull == [SnapUndef EXCEPT !.t = "null"]
SnapStr(c) == [SnapUndef EXCEPT !.t = "string", !.s = c]
SnapObj == [SnapUndef EXCEPT !.t = "object"]

\* JavaScript truthiness
TruthyStr(s) == s # Undef /\ s # ""
Truthy(snap) ==
  \/ snap.t = "object"
  \/ snap.t = "string" /\ snap.s # ""

\* || on strings
OrElse(s, d) == IF TruthyStr(s) THEN s ELSE d

\* ids: randomUUID() is 36 characters, the first 8 of them are pfx
Prefixes == {"a1b2c3d4"}
UuidLen == 36
PrefixLen == 8
ShortLen == 4
NoId == [pfx |-> "", n |-> 0, len |-> 0]
Uuid(p, n) == [pfx |-> p, n |-> n, len |-> UuidLen]
\* what a caller may type: a full id, its first 8 or its first 4 characters
IdArgs ==
  {Uuid(p, n) : p \in Prefixes, n \in 0..MaxIds}
    \cup {[pfx |-> p, n |-> 0, len |-> l] : p \in Prefixes, l \in {PrefixLen, ShortLen}}
\* String.prototype.startsWith
StartsWith(id, arg) ==
  IF arg.len = UuidLen THEN id = arg ELSE id.pfx = arg.pfx /\ id.len >= arg.len

User(name) == [name |-> name, viaRecovery |-> 0]
\* user + " (via recovery)"
ViaRecovery(u) == [u EXCEPT !.viaRecovery = @ + 1]

Target(k, v) == [key |-> k, value |-> v]
\* operation.target.title / .text / .summary
TargetField(target, k) == IF target.key = k THEN target.value ELSE Undef

NullEntry ==
  [id |-> NoId, timestamp |-> 0, operation |-> "", app |-> "",
   target |-> Target("", Undef), before |-> SnapUndef, after |-> SnapUndef,
   confirmed |-> FALSE, folder |-> Undef, user |-> User(Undef)]

(***************************************************************************)
(* Files                                                                   *)
(***************************************************************************)
\* one line of the log file: JSON.stringify(entry) + "\n", or damaged text
Line(e) == [kind |-> "entry", e |-> e]
GarbageLine == [kind |-> "garbage", e |-> NullEntry]
\* an object that has id and timestamp but no data property
NoDataLine(e) == [kind |-> "nodata", e |-> e]

NoFile == [exists |-> FALSE, lines |-> <<>>]
File(ls) == [exists |-> TRUE, lines |-> ls]

MB == 1024 * 1024
\* ConfigManager.getMaxLogSize() default
DefaultMaxLogSizeMB == 10
\* bytes of a serialized entry without its note body
LineOverheadBytes == 256
SmallBodyBytes == 16
HugeBodyBytes == 11 * MB

BodyBytes(snap) ==
  IF snap.t # "string" THEN 0
  ELSE IF snap.s = HugeBody THEN HugeBodyBytes
  ELSE IF snap.s = "" THEN 0 ELSE SmallBodyBytes

LineBytes(line) == LineOverheadBytes + BodyBytes(line.e.before) + BodyBytes(line.e.after)

\* the bytes of lines a..b
RECURSIVE SumBytes(_, _, _)
SumBytes(ls, a, b) ==
  IF a > b THEN 0
  ELSE IF a = b THEN LineBytes(ls[a])
  ELSE LET mid == (a + b) \div 2 IN SumBytes(ls, a, mid) + SumBytes(ls, mid + 1, b)

\* fs.statSync(path).size
StatSize(file) == SumBytes(file.lines, 1, Len(file.lines))

(***************************************************************************)
(* Configuration (ConfigManager: read once per process)                    *)
(***************************************************************************)
Config(logging, delete, update) ==
  [loggingEnabled |-> logging, allowDelete |-> delete, allowUpdate |-> update,
   maxLogSizeMB |-> DefaultMaxLogSizeMB]

\* MCP_LOGGING_ENABLED / MCP_ALLOW_DELETE / MCP_ALLOW_UPDATE as the process may be started
Configs ==
  {Config(TRUE, FALSE, FALSE), Config(TRUE, TRUE, TRUE), Config(FALSE, TRUE, TRUE)}

(***************************************************************************)
(* OperationLogger                                                         *)
(***************************************************************************)
\* outcomes of the file system calls made by one log() call
IoOutcomes == {"ok", "append fails", "unlink fails", "rename fails"}

Files(log, old) == [log |-> log, old |-> old]

\* a faulty variant: the rotated lines are added to the earlier .old file
rotateLogIfNeeded_m(fs, cfg, io) ==
  LET maxSizeBytes == cfg.maxLogSizeMB * 1024 * 1024 IN
  IF ~fs.log.exists THEN fs
  ELSE IF StatSize(fs.log) > maxSizeBytes
    THEN [log |-> [exists |-> FALSE, lines |-> <<>>],
          old |-> [exists |-> TRUE, lines |-> fs.old.lines \o fs.log.lines]]
    ELSE fs

\* rotateLogIfNeeded: rename the active file to .old when it is over the limit
rotateLogIfNeeded(fs, cfg, io) ==
  LET maxSizeBytes == cfg.maxLogSizeMB * 1024 * 1024 IN
  IF ~fs.log.exists THEN fs
  ELSE IF StatSize(fs.log) > maxSizeBytes
    THEN IF fs.old.exists /\ io = "unlink fails" THEN fs
         ELSE IF io = "rename fails" THEN Files(fs.log, NoFile)
         ELSE Files(NoFile, File(fs.log.lines))
    ELSE fs

\* metadata argument of log(): confirmed is "true", "false" or Undef
Meta(confirmed, folder, user) == [confirmed |-> confirmed, folder |-> folder, user |-> user]

\* the entry log() builds (logger lines 52-64)
NewEntry(uuid, ts, operation, app, target, before, after, metadata) ==
  [id |-> uuid, timestamp |-> ts, operation |-> operation, app |-> app,
   target |-> target, before |-> before, after |-> after,
   confirmed |-> IF metadata.confirmed = Undef THEN FALSE ELSE metadata.confirmed = "true",
   folder |-> metadata.folder,
   user |-> IF metadata.user.name = Undef THEN User(ProcessUser) ELSE metadata.user]

\* a faulty variant: the file is written anew with the one line
AppendLine_m(file, line) == File(<<line>>)

\* fs.appendFileSync: creates the file when it is absent
AppendLine(file, line) == File(Append(file.lines, line))

\* a faulty variant: logging cannot be switched off
isLoggingEnabled_m(cfg) == TRUE

\* ConfigManager.isLoggingEnabled()
isLoggingEnabled(cfg) == cfg.loggingEnabled

\* a faulty variant: the id of the entry is returned although it was not written
log_m(fs, cfg, uuid, ts, operation, app, target, before, after, metadata, io) ==
  IF ~isLoggingEnabled(cfg)
    THEN [fs |-> fs, id |-> NoId, drew |-> 0, wrote |-> <<>>]
    ELSE LET entry == NewEntry(uuid, ts, operation, app, target, before, after, metadata) IN
         IF io = "append fails"
           THEN [fs |-> fs, id |-> entry.id, drew |-> 1, wrote |-> <<>>]
           ELSE [fs |-> rotateLogIfNeeded(Files(AppendLine(fs.log, Line(entry)), fs.old), cfg, io),
                 id |-> entry.id, drew |-> 1, wrote |-> <<entry>>]

\* log(): returns the files afterwards, the id returned and the entry written
log(fs, cfg, uuid, ts, operation, app, target, before, after, metadata, io) ==
  IF ~isLoggingEnabled(cfg)
    THEN [fs |-> fs, id |-> NoId, drew |-> 0, wrote |-> <<>>]
    ELSE LET entry == NewEntry(uuid, ts, operation, app, target, before, after, metadata) IN
         IF io = "append fails"
           THEN [fs |-> fs, id |-> NoId, drew |-> 1, wrote |-> <<>>]
           ELSE [fs |-> rotateLogIfNeeded(Files(AppendLine(fs.log, Line(entry)), fs.old), cfg, io),
                 id |-> entry.id, drew |-> 1, wrote |-> <<entry>>]

\* options of readLogs: Undef / NoLimit / NoSince when a filter is not given
NoLimit == [defined |-> FALSE, n |-> 0]
Limit(n) == [defined |-> TRUE, n |-> n]
NoSince == [defined |-> FALSE, t |-> 0]
Since(t) == [defined |-> TRUE, t |-> t]
Options(operation, app, limit) ==
  [operation |-> operation, app |-> app, limit |-> limit, since |-> NoSince]
NoOptions == Options(Undef, Undef, NoLimit)

\* JSON.parse of the lines, unparsable ones dropped
ParseLines(ls) == SelectSeq(ls, LAMBDA l : l.kind # "garbage")

\* a faulty variant: oldest first
SortNewestFirst_m(logs) ==
  SortSeq(logs, LAMBDA a, b : a.e.timestamp < b.e.timestamp)

\* logs.sort((a, b) => time(b) - time(a)): newest first; the sort is
\* stable, entries of the same millisecond stay in file order
SortNewestFirst(logs) ==
  SortSeq(logs, LAMBDA a, b : a.e.timestamp > b.e.timestamp)

Min(a, b) == IF a < b THEN a ELSE b
Max(a, b) == IF a > b THEN a ELSE b

\* Array.prototype.slice(0, n)
Slice0(logs, n) ==
  IF n >= 0 THEN SubSeq(logs, 1, Min(n, Len(logs)))
  ELSE SubSeq(logs, 1, Max(Len(logs) + n, 0))

\* if (options?.limit): undefined and 0 are falsy
ApplyLimit(logs, limit) ==
  IF limit.defined /\ limit.n # 0 THEN Slice0(logs, limit.n) ELSE logs

\* readLogs(options); readOk is whether fs.readFileSync succeeds
readLogs(fs, options, readOk) ==
  IF ~fs.log.exists THEN <<>>
  ELSE IF ~readOk THEN <<>>
  ELSE LET parsed == ParseLines(fs.log.lines)
           byOp == IF options.operation # Undef
                     THEN SelectSeq(parsed, LAMBDA l : l.e.operation = options.operation)
                     ELSE parsed
           byApp == IF options.app # Undef
                      THEN SelectSeq(byOp, LAMBDA l : l.e.app = options.app)
                      ELSE byOp
           bySince == IF options.since.defined
                        THEN SelectSeq(byApp, LAMBDA l : l.e.timestamp >= options.since.t)
                        ELSE byApp
       IN ApplyLimit(SortNewestFirst(bySince), options.limit)

\* a faulty variant: the first 8 characters decide, whatever was typed
IdMatches_m(l, id) == l.e.id.pfx = id.pfx

\* log.id === id || (id.length >= 8 && log.id.startsWith(id))
IdMatches(l, id) == l.e.id = id \/ (id.len >= 8 /\ StartsWith(l.e.id, id))

\* getOperation(id): the first match of readLogs(), or null
getOperation(fs, id, readOk) ==
  LET logs == readLogs(fs, NoOptions, readOk)
      hits == {i \in 1..Len(logs) : IdMatches(logs[i], id)}
  IN IF hits = {} THEN [found |-> FALSE, log |-> GarbageLine]
     ELSE [found |-> TRUE, log |-> logs[CHOOSE i \in hits : \A j \in hits : i <= j]]

\* a faulty variant: an entry stamped exactly at the cut-off is removed
WithinRetention_m(l, cutoffDate) == l.e.timestamp > cutoffDate

\* new Date(log.timestamp) >= cutoffDate
WithinRetention(l, cutoffDate) == l.e.timestamp >= cutoffDate

\* a faulty variant: the file is rewritten even when nothing was removed
cleanupAfterRead_m(fs, allLogs, cutoffDate, writeOk) ==
  LET logsToKeep == SelectSeq(allLogs, LAMBDA l : WithinRetention(l, cutoffDate))
      removedCount == Len(allLogs) - Len(logsToKeep)
  IN IF writeOk
       THEN [fs |-> Files(File(logsToKeep), fs.old), threw |-> FALSE,
             removedCount |-> removedCount]
       ELSE [fs |-> fs, threw |-> TRUE, removedCount |-> 0]

\* cleanupOldLogs after "await this.readLogs()": fs is the disk as it is when
\* the call goes on, allLogs what the call had read
cleanupAfterRead(fs, allLogs, cutoffDate, writeOk) ==
  LET logsToKeep == SelectSeq(allLogs, LAMBDA l : WithinRetention(l, cutoffDate))
      removedCount == Len(allLogs) - Len(logsToKeep)
  IN IF removedCount > 0
       THEN IF writeOk
              THEN [fs |-> Files(File(logsToKeep), fs.old), threw |-> FALSE,
                    removedCount |-> removedCount]
              ELSE [fs |-> fs, threw |-> TRUE, removedCount |-> 0]
       ELSE [fs |-> fs, threw |-> FALSE, removedCount |-> 0]

\* cleanupOldLogs(): cutoffDate is new Date() moved back by the retention
\* days; the file is rewritten from what readLogs() returned; writeOk is
\* whether fs.writeFileSync succeeds
cleanupOldLogs(fs, cutoffDate, readOk, writeOk) ==
  cleanupAfterRead(fs, readLogs(fs, NoOptions, readOk), cutoffDate, writeOk)

(***************************************************************************)
(* Call context: what one tool call has done so far                        *)
(***************************************************************************)
\* a thrown McpError from AppleScriptRunner.execute
Throws == "<throws>"
ExecFailed == "AppleScript Execution Failed"

CallRec(fn, a1, a2, a3, a4, a5, skipLog) ==
  [fn |-> fn, args |-> <<a1, a2, a3, a4, a5>>, skipLog |-> skipLog, execsBefore |-> 0]

\* fs: the files; nextId: uuids drawn; execs: automation commands issued;
\* reads: readLogs calls; calls: backend calls, each with the number of
\* automation commands issued before it; logged: entries written; native:
\* what the native restoration script of recover returned, if it ran
NewCtx(fs, cfg, now, nextId) ==
  [fs |-> fs, cfg |-> cfg, now |-> now, nextId |-> nextId, execs |-> 0,
   reads |-> 0, calls |-> <<>>, logged |-> <<>>, logCalls |-> 0,
   writeFailed |-> FALSE, native |-> Undef]

Exec(ctx) == [ctx EXCEPT !.execs = @ + 1]
Read(ctx) == [ctx EXCEPT !.reads = @ + 1]
Called(ctx, call) ==
  [ctx EXCEPT !.calls = Append(@, [call EXCEPT !.execsBefore = ctx.execs])]
Native(ctx, nativeResult) == [ctx EXCEPT !.native = nativeResult]

\* a value returned or an exception thrown, with the context afterwards
Ret(ctx, value) == [ctx |-> ctx, threw |-> FALSE, value |-> value]
Thrown(ctx, message) == [ctx |-> ctx, threw |-> TRUE, value |-> message]

\* new Date(): the millisecond of the newest entry on disk, or a later one
\* (timestamps are only ever compared with each other)
ClockReadings(ctx) ==
  LET lines == ctx.fs.log.lines \o ctx.fs.old.lines IN
  IF \E i \in 1..Len(lines) : lines[i].e.timestamp = ctx.now
    THEN {ctx.now, ctx.now + 1}
    ELSE {ctx.now}

\* the file system failures that can show in one log() call: the unlink and
\* the rename are only reached when the appended file is over the limit
IoOutcomesOf(ctx, before, after) ==
  LET line == Line([NullEntry EXCEPT !.before = before, !.after = after])
      maxSizeBytes == ctx.cfg.maxLogSizeMB * 1024 * 1024
  IN IF StatSize(AppendLine(ctx.fs.log, line)) > maxSizeBytes
       THEN IoOutcomes
       ELSE {"ok", "append fails"}

\* await this.logger.log(...): every uuid prefix, clock reading and file
\* system outcome; nextId counts the uuids that reached the file
Log(ctx, operation, app, target, before, after, metadata) ==
  { LET r == log(ctx.fs, ctx.cfg, Uuid(p, ctx.nextId + 1), ts,
                 operation, app, target, before, after, metadata, io)
    IN [ctx |-> [ctx EXCEPT !.fs = r.fs, !.nextId = @ + Len(r.wrote),
                            !.now = IF r.wrote = <<>> THEN @ ELSE ts,
                            !.logged = @ \o r.wrote, !.logCalls = @ + 1,
                            !.writeFailed = @ \/ (r.drew = 1 /\ r.wrote = <<>>)],
        id |-> r.id]
    : p \in Prefixes, ts \in ClockReadings(ctx), io \in IoOutcomesOf(ctx, before, after) }

(***************************************************************************)
(* Notes backend (apps/notes.ts)                                           *)
(***************************************************************************)
\* ConfigManager.getDefaultNotesFolder() default
DefaultNotesFolder == "ai"

\* Notes.create(title, content, folder, {skipLog})
NotesCreate(ctx, title, content, folder, skipLog) ==
  LET targetFolder == OrElse(folder, DefaultNotesFolder)
      c0 == Called(ctx, CallRec("notes.create", title, content, folder, Undef, Undef, skipLog))
      c1 == Exec(c0)
  IN UNION {
       IF out = Throws THEN {Thrown(c1, ExecFailed)}
       ELSE IF ~skipLog
         THEN { Ret(l.ctx, "created successfully")
                : l \in Log(c1, "create", "notes", Target("title", title), SnapUndef,
                            SnapStr(content), Meta(Undef, targetFolder, User(Undef))) }
         ELSE {Ret(c1, "created successfully")}
       : out \in {"", Throws} }

\* plain text that Notes.get() hands back (an empty note, a short one, a very long one)
NoteBodies == {"", "old content", HugeBody}

\* Notes.get(title, {folder}): one automation command
NotesGet(ctx, title, folder) ==
  LET c1 == Exec(ctx) IN
  { IF out = Throws THEN Thrown(c1, ExecFailed) ELSE Ret(c1, out)
    : out \in NoteBodies \cup {Throws} }

\* Notes.update(title, newContent, folder)
NotesUpdate(ctx, title, newContent, folder) ==
  IF ~ctx.cfg.allowUpdate THEN {Thrown(ctx, "Update operations are disabled.")}
  ELSE UNION {
    IF g.threw THEN {g}
    ELSE LET c1 == Exec(g.ctx) IN
      UNION {
        IF out = Throws THEN {Thrown(c1, ExecFailed)}
        ELSE { Ret(l.ctx, "updated successfully")
               : l \in Log(c1, "update", "notes", Target("title", title),
                           SnapStr(g.value), SnapStr(newContent),
                           Meta(Undef, folder, User(Undef))) }
        : out \in {"", Throws} }
    : g \in NotesGet(ctx, title, folder) }

\* the folder Notes.delete records: the argument, or the one looked up
NotesFinalFolder(ctx, folder) ==
  IF TruthyStr(folder) THEN {Ret(ctx, folder)}
  ELSE LET c1 == Exec(ctx) IN {Ret(c1, "Work"), Ret(c1, Undef)}

\* a faulty variant: the confirmation title is not compared
NotesDelete_m(ctx, title, confirmTitle, folder) ==
  IF ~ctx.cfg.allowDelete THEN {Thrown(ctx, "Delete operations are disabled.")}
  ELSE UNION {
    IF g.threw THEN {g}
    ELSE UNION {
      LET c1 == Exec(f.ctx) IN
      UNION {
        IF out = Throws THEN {Thrown(c1, ExecFailed)}
        ELSE { Ret(l.ctx, "deleted successfully")
               : l \in Log(c1, "delete", "notes", Target("title", title),
                           SnapStr(g.value), SnapNull,
                           Meta("true", f.value, User(Undef))) }
        : out \in {"", Throws} }
      : f \in NotesFinalFolder(g.ctx, folder) }
    : g \in NotesGet(ctx, title, folder) }

\* Notes.delete(title, confirmTitle, folder)
NotesDelete(ctx, title, confirmTitle, folder) ==
  IF ~ctx.cfg.allowDelete THEN {Thrown(ctx, "Delete operations are disabled.")}
  ELSE IF title # confirmTitle
    THEN {Thrown(ctx, "Deletion cancelled: Confirmation title does not match.")}
  ELSE UNION {
    IF g.threw THEN {g}
    ELSE UNION {
      LET c1 == Exec(f.ctx) IN
      UNION {
        IF out = Throws THEN {Thrown(c1, ExecFailed)}
        ELSE { Ret(l.ctx, "deleted successfully")
               : l \in Log(c1, "delete", "notes", Target("title", title),
                           SnapStr(g.value), SnapNull,
                           Meta("true", f.value, User(Undef))) }
        : out \in {"", Throws} }
      : f \in NotesFinalFolder(g.ctx, folder) }
    : g \in NotesGet(ctx, title, folder) }

(***************************************************************************)
(* Reminders backend (apps/reminders.ts)                                   *)
(***************************************************************************)
\* ConfigManager.getDefaultRemindersList() default
DefaultRemindersList == "ai"

\* ensureList(listName): one command when the list exists, two to create it
EnsureList(ctx) ==
  LET c1 == Exec(ctx)
      c2 == Exec(c1)
  IN {Thrown(c1, ExecFailed), Ret(c1, "exists"), Thrown(c2, ExecFailed), Ret(c2, "created")}

\* Reminders.add(text, due, listName)
RemindersAdd(ctx, text, due, listName) ==
  LET targetList == OrElse(listName, DefaultRemindersList)
      c0 == Called(ctx, CallRec("reminders.add", text, due, listName, Undef, Undef, FALSE))
  IN UNION {
    IF en.threw THEN {en}
    ELSE LET c1 == Exec(en.ctx) IN
      UNION {
        IF out = Throws THEN {Thrown(c1, ExecFailed)}
        ELSE { Ret(l.ctx, "added successfully")
               : l \in Log(c1, "create", "reminders", Target("text", text), SnapUndef,
                           [SnapObj EXCEPT !.text = text, !.due = due],
                           Meta(Undef, targetList, User(Undef))) }
        : out \in {"", Throws} }
    : en \in EnsureList(c0) }

\* Reminders.complete(text, listName)
RemindersComplete(ctx, text, listName) ==
  LET c1 == Exec(ctx) IN
  UNION {
    IF out = Throws THEN {Thrown(c1, ExecFailed)}
    ELSE { Ret(l.ctx, "marked as completed")
           : l \in Log(c1, "update", "reminders", Target("text", text),
                       [SnapObj EXCEPT !.completed = "false"],
                       [SnapObj EXCEPT !.completed = "true"],
                       Meta(Undef, listName, User(Undef))) }
    : out \in {"", Throws} }

\* "due date of theReminder as string"
DueOutputs == {"2024-01-01"}

\* Reminders.update(oldText, newText, newDue, listName)
RemindersUpdate(ctx, oldText, newText, newDue, listName) ==
  IF ~ctx.cfg.allowUpdate THEN {Thrown(ctx, "Update operations are disabled.")}
  ELSE LET c1 == Exec(ctx) IN
    UNION {
      IF oldDue = Throws THEN {Thrown(c1, ExecFailed)}
      ELSE LET c2 == IF TruthyStr(newDue) \/ TruthyStr(newText) THEN Exec(c1) ELSE c1 IN
        UNION {
          IF out = Throws /\ c2 # c1 THEN {Thrown(c2, ExecFailed)}
          ELSE { Ret(l.ctx, "updated successfully")
                 : l \in Log(c2, "update", "reminders", Target("text", oldText),
                             [SnapObj EXCEPT !.text = oldText, !.due = oldDue],
                             [SnapObj EXCEPT !.text = OrElse(newText, oldText),
                                             !.due = OrElse(newDue, oldDue)],
                             Meta(Undef, listName, User(Undef))) }
          : out \in {"", Throws} }
      : oldDue \in DueOutputs \cup {Throws} }

\* the list Reminders.delete records: the argument, or the one looked up
RemindersActualList(ctx, listName) ==
  IF TruthyStr(listName) THEN {Ret(ctx, listName)}
  ELSE LET c1 == Exec(ctx) IN {Ret(c1, "Tasks"), Ret(c1, Undef)}

\* the due date Reminders.delete records: "" when the command fails
RemindersOldDue(ctx) ==
  LET c1 == Exec(ctx) IN
  { Ret(c1, IF out = Throws THEN "" ELSE out) : out \in DueOutputs \cup {Throws} }

\* Reminders.delete(text, confirmText, listName)
RemindersDelete(ctx, text, confirmText, listName) ==
  IF ~ctx.cfg.allowDelete THEN {Thrown(ctx, "Delete operations are disabled.")}
  ELSE IF text # confirmText
    THEN {Thrown(ctx, "Deletion cancelled: Confirmation text does not match.")}
  ELSE UNION {
    UNION {
      LET c1 == Exec(d.ctx) IN
      UNION {
        IF out = Throws THEN {Thrown(c1, ExecFailed)}
        ELSE { Ret(l.ctx, "deleted successfully")
               : l \in Log(c1, "delete", "reminders", Target("text", text),
                           [SnapObj EXCEPT !.text = text, !.due = d.value], SnapNull,
                           Meta("true", a.value, User(Undef))) }
        : out \in {"", Throws} }
      : d \in RemindersOldDue(a.ctx) }
    : a \in RemindersActualList(ctx, listName) }

(***************************************************************************)
(* Calendar backend (apps/calendar.ts)                                     *)
(***************************************************************************)
\* a faulty variant: the entry is logged before the event is made
CalendarCreateEvent_m(ctx, summary, startDate, endDate, calendarName, location) ==
  UNION {
    { IF out = Throws THEN Thrown(Exec(l.ctx), ExecFailed)
      ELSE Ret(Exec(l.ctx), "created successfully")
      : out \in {"", Throws} }
    : l \in Log(Called(ctx, CallRec("calendar.createEvent", summary, startDate, endDate,
                                    calendarName, location, FALSE)),
                "create", "calendar", Target("summary", summary), SnapUndef,
                [SnapObj EXCEPT !.startDate = startDate, !.endDate = endDate],
                Meta(Undef, calendarName, User(Undef))) }

\* Calendar.createEvent(summary, startDate, endDate, calendarName, location);
\* ConfigManager.getDefaultCalendar() is undefined by default
CalendarCreateEvent(ctx, summary, startDate, endDate, calendarName, location) ==
  LET targetCalendar == OrElse(calendarName, Undef)
      c0 == Called(ctx, CallRec("calendar.createEvent", summary, startDate, endDate,
                                calendarName, location, FALSE))
      c1 == Exec(c0)
  IN UNION {
       IF out = Throws THEN {Thrown(c1, ExecFailed)}
       ELSE { Ret(l.ctx, "created successfully")
              : l \in Log(c1, "create", "calendar", Target("summary", summary), SnapUndef,
                          [SnapObj EXCEPT !.startDate = startDate, !.endDate = endDate,
                                          !.calendar = targetCalendar, !.location = location],
                          Meta(Undef, targetCalendar, User(Undef))) }
       : out \in {"", Throws} }

\* what the event lookup prints, as its comma separated pieces: nothing when
\* no event matches, the five properties, or a truncated answer
EventDetailsOutputs ==
  { <<>>,
    <<"Standup", "2024-01-01 10:00", "2024-01-01 11:00", "Work", "Room 1">>,
    <<"Standup">> }

\* AppleScriptRunner.parseList: split(",") and trim; [] for the empty string
parseList(output) == IF output = <<>> THEN <<>> ELSE output

\* array destructuring: undefined beyond the end
Item(list, i) == IF i <= Len(list) THEN list[i] ELSE Undef

\* Calendar.deleteEvent(summary, startDate, confirmSummary)
CalendarDeleteEvent(ctx, summary, startDate, confirmSummary) ==
  IF ~ctx.cfg.allowDelete THEN {Thrown(ctx, "Delete operations are disabled.")}
  ELSE IF summary # confirmSummary
    THEN {Thrown(ctx, "Deletion cancelled: Confirmation summary does not match.")}
  ELSE LET c1 == Exec(ctx)
           c2 == Exec(c1)
       IN {Thrown(c1, ExecFailed), Thrown(c2, ExecFailed)} \cup
          UNION {
            IF eventDetails # <<>>
              THEN LET items == parseList(eventDetails) IN
                   { Ret(l.ctx, "deleted successfully")
                     : l \in Log(c2, "delete", "calendar", Target("summary", summary),
                                 [SnapObj EXCEPT !.startDate = Item(items, 2),
                                                 !.endDate = Item(items, 3),
                                                 !.calendar = Item(items, 4),
                                                 !.location = Item(items, 5)],
                                 SnapNull, Meta("true", Item(items, 4), User(Undef))) }
              ELSE {Ret(c2, "deleted successfully")}
            : eventDetails \in EventDetailsOutputs }

(***************************************************************************)
(* RecoveryManager (utils/recovery.ts)                                     *)
(***************************************************************************)
\* listRecoverableOperations default limit
DefaultListLimit == 50

\* options?.limit || 50
LimitOrDefault(limit) ==
  IF limit.defined /\ limit.n # 0 THEN limit ELSE Limit(DefaultListLimit)

\* a faulty variant: entries without a before snapshot are kept
HasBefore_m(l) == TRUE

\* log.data.before !== undefined
HasBefore(l) == l.e.before.t # "undefined"

\* listRecoverableOperations(options); throws on a line without data
listRecoverableOperations(fs, options, readOk) ==
  LET logs == readLogs(fs, [options EXCEPT !.limit = LimitOrDefault(options.limit)], readOk)
  IN IF \E i \in 1..Len(logs) : logs[i].kind = "nodata"
       THEN [threw |-> TRUE, entries |-> <<>>]
       ELSE [threw |-> FALSE, entries |-> SelectSeq(logs, HasBefore)]

\* !operation.data.before
NoBackup(l) == ~Truthy(l.e.before)

\* operation.operation === "create"
IsCreate(l) == l.e.operation = "create"

NoDetails ==
  [found |-> FALSE, threw |-> FALSE, canRecover |-> FALSE, reason |-> Undef,
   operation |-> GarbageLine]

\* a faulty variant: every entry found is reported recoverable
getRecoveryDetails_m(fs, operationId, readOk) ==
  LET op == getOperation(fs, operationId, readOk) IN
  IF ~op.found THEN NoDetails
  ELSE [NoDetails EXCEPT !.found = TRUE, !.operation = op.log, !.canRecover = TRUE]

\* getRecoveryDetails(operationId): null, or {operation, canRecover, reason}
getRecoveryDetails(fs, operationId, readOk) ==
  LET op == getOperation(fs, operationId, readOk) IN
  IF ~op.found THEN NoDetails
  ELSE IF op.log.kind = "nodata"
    THEN [NoDetails EXCEPT !.threw = TRUE, !.reason = "TypeError"]
  ELSE IF NoBackup(op.log)
    THEN [NoDetails EXCEPT !.found = TRUE, !.operation = op.log,
                           !.reason = "No backup data available for this operation"]
  ELSE IF IsCreate(op.log)
    THEN [NoDetails EXCEPT !.found = TRUE, !.operation = op.log,
                           !.reason = "Cannot recover create operations (item still exists)"]
  ELSE [NoDetails EXCEPT !.found = TRUE, !.operation = op.log, !.canRecover = TRUE]

\* what the native restoration scripts print
NotesNativeOutputs == {"native_success", "no_note_found", "error: not found"}
RemindersNativeOutputs == {"native_success", "no_match", "error: not found"}

\* a faulty variant: native success is never recognised
NativeSucceeded_m(nativeResult) == FALSE

\* nativeResult === "native_success"
NativeSucceeded(nativeResult) == nativeResult = "native_success"

RecoveredNatively == "recovered natively"

\* a faulty variant: the note always goes to the default folder
NotesOriginalFolder_m(e) == DefaultNotesFolder

\* operation.metadata.folder || "Notes"
NotesOriginalFolder(e) == OrElse(e.folder, "Notes")

\* recoverNote(operation)
recoverNote(ctx, operation) ==
  LET title == TargetField(operation.e.target, "title")
      content == operation.e.before
      originalFolder == NotesOriginalFolder(operation.e)
  IN IF ~TruthyStr(title) THEN {Thrown(ctx, "Missing note title for recovery")}
     ELSE UNION {
         LET c1 == Native(Exec(ctx), nativeResult) IN
         IF nativeResult # Throws /\ NativeSucceeded(nativeResult)
           THEN {Ret(c1, RecoveredNatively)}
         ELSE IF ~Truthy(content) \/ content.t # "string"
           THEN {Thrown(c1, "Missing note content for fallback recovery")}
         ELSE NotesCreate(c1, title, content.s, originalFolder, TRUE)
         : nativeResult \in NotesNativeOutputs \cup {Throws} }

\* operation.metadata.folder || "Reminders"
RemindersOriginalList(e) == OrElse(e.folder, "Reminders")

\* typeof data === "object" ? data.dueDate : undefined
ReminderDueDate(data) == IF data.t = "object" THEN data.dueDate ELSE Undef

\* recoverReminder(operation)
recoverReminder(ctx, operation) ==
  LET text == TargetField(operation.e.target, "text")
      data == operation.e.before
      originalList == RemindersOriginalList(operation.e)
  IN IF ~TruthyStr(text) THEN {Thrown(ctx, "Missing reminder text for recovery")}
     ELSE UNION {
         LET c1 == Native(Exec(ctx), nativeResult) IN
         IF nativeResult # Throws /\ NativeSucceeded(nativeResult)
           THEN {Ret(c1, RecoveredNatively)}
         ELSE RemindersAdd(c1, text, ReminderDueDate(data), originalList)
         : nativeResult \in RemindersNativeOutputs \cup {Throws} }

\* a faulty variant: the dates of the snapshot are not required
recoverCalendarEvent_m(ctx, operation) ==
  LET summary == TargetField(operation.e.target, "summary")
      data == operation.e.before
  IN IF ~TruthyStr(summary)
       THEN {Thrown(ctx, "Missing calendar event data for recovery")}
       ELSE CalendarCreateEvent(ctx, summary, data.startDate, data.endDate,
                                data.calendar, data.location)

\* recoverCalendarEvent(operation)
recoverCalendarEvent(ctx, operation) ==
  LET summary == TargetField(operation.e.target, "summary")
      data == operation.e.before
  IN IF ~TruthyStr(summary) \/ ~TruthyStr(data.startDate) \/ ~TruthyStr(data.endDate)
       THEN {Thrown(ctx, "Missing calendar event data for recovery")}
       ELSE CalendarCreateEvent(ctx, summary, data.startDate, data.endDate,
                                data.calendar, data.location)

\* the outcome of recover: success, failure, or an exception that escapes
Outcome(ctx, kind, message, detail, newOperationId) ==
  [ctx |-> ctx, kind |-> kind, message |-> message, detail |-> detail,
   newOperationId |-> newOperationId]

\* a faulty variant: the confirmation is never compared
ConfirmationMismatch_m(operationId, confirmId) == FALSE

\* operationId !== confirmId
ConfirmationMismatch(operationId, confirmId) == operationId # confirmId

\* (operation.metadata.user || process.env.USER) + " (via recovery)"
RecoveryUser(e) ==
  ViaRecovery(IF TruthyStr(e.user.name) THEN e.user ELSE User(ProcessUser))

\* a faulty variant: the create entry is not marked confirmed
RecoveryMeta_m(e) == Meta(Undef, e.folder, RecoveryUser(e))

\* the metadata of the synthetic entry: calendar entries carry no folder
RecoveryMeta(e) ==
  Meta("true", IF e.app = "calendar" THEN Undef ELSE e.folder, RecoveryUser(e))

\* the switch of recover (lines 125-204): restore, then log the create entry
recoverDispatch(ctx, operation) ==
  LET e == operation.e
      restored == CASE e.app = "notes" -> recoverNote(ctx, operation)
                    [] e.app = "reminders" -> recoverReminder(ctx, operation)
                    [] e.app = "calendar" -> recoverCalendarEvent(ctx, operation)
                    [] OTHER -> {}
  IN IF e.app \notin {"notes", "reminders", "calendar"}
       THEN {Outcome(ctx, "failure", "Recovery not supported for app", e.app, NoId)}
       ELSE UNION {
         IF r.threw THEN {Outcome(r.ctx, "failure", "Recovery failed", r.value, NoId)}
         ELSE { Outcome(l.ctx, "success", "Successfully recovered", r.value, l.id)
                : l \in Log(r.ctx, "create", e.app, e.target, SnapUndef, e.before,
                            RecoveryMeta(e)) }
         : r \in restored }

\* recover(operationId, confirmId)
recover(ctx, operationId, confirmId) ==
  IF ConfirmationMismatch(operationId, confirmId)
    THEN {Outcome(ctx, "failure", "Recovery cancelled", Undef, NoId)}
    ELSE LET c1 == Read(ctx) IN
      UNION {
        LET details == getRecoveryDetails(c1.fs, operationId, readOk) IN
        IF details.threw THEN {Outcome(c1, "threw", details.reason, Undef, NoId)}
        ELSE IF ~details.found THEN {Outcome(c1, "failure", "not found", Undef, NoId)}
        ELSE IF ~details.canRecover
          THEN {Outcome(c1, "failure", "Cannot recover", details.reason, NoId)}
        ELSE recoverDispatch(c1, details.operation)
        : readOk \in BOOLEAN }

\* readLogs({ limit: 1000 }) in getRecoveryStats
StatsLimit == 1000

\* how many entries of logs carry the value v in the field key
CountBy(logs, key, v) == Len(SelectSeq(logs, LAMBDA l : l.e[key] = v))

\* a faulty variant: the two tables count every entry read
getRecoveryStats_m(fs, readOk) ==
  LET allLogs == readLogs(fs, Options(Undef, Undef, Limit(StatsLimit)), readOk)
      recoverable == SelectSeq(allLogs, HasBefore)
  IN [threw |-> FALSE,
      totalOperations |-> Len(allLogs),
      recoverableOperations |-> Len(recoverable),
      byApp |-> [a \in {allLogs[i].e.app : i \in DOMAIN allLogs} |->
                   CountBy(allLogs, "app", a)],
      byOperation |-> [o \in {allLogs[i].e.operation : i \in DOMAIN allLogs} |->
                         CountBy(allLogs, "operation", o)]]

\* getRecoveryStats(): the two tables have a key for every value seen among
\* the recoverable entries; log.data.before throws on a line without data
getRecoveryStats(fs, readOk) ==
  LET allLogs == readLogs(fs, Options(Undef, Undef, Limit(StatsLimit)), readOk)
      recoverable == SelectSeq(allLogs, HasBefore)
  IN IF \E i \in DOMAIN allLogs : allLogs[i].kind = "nodata"
       THEN [threw |-> TRUE, totalOperations |-> 0, recoverableOperations |-> 0,
             byApp |-> <<>>, byOperation |-> <<>>]
     ELSE [threw |-> FALSE,
           totalOperations |-> Len(allLogs),
           recoverableOperations |-> Len(recoverable),
           byApp |-> [a \in {recoverable[i].e.app : i \in DOMAIN recoverable} |->
                        CountBy(recoverable, "app", a)],
           byOperation |->
             [o \in {recoverable[i].e.operation : i \in DOMAIN recoverable} |->
                CountBy(recoverable, "operation", o)]]

(***************************************************************************)
(* The state machine                                                       *)
(***************************************************************************)
VARIABLES
  fs,            \* the active log file and its .old sibling
  cfg,           \* the configuration of the running process
  now,           \* the newest timestamp written so far
  nextId,        \* uuids written so far
  backendCalls,  \* backend tool calls so far
  last,          \* the most recent tool call and how it ended
  suspended      \* the call that waits at an await, if any

vars == <<fs, cfg, now, nextId, backendCalls, last, suspended>>

\* no call waits: every call so far ran to its end
NoCall ==
  [call |-> "none", phase |-> "idle", app |-> "", attempt |-> 0, delay |-> 0,
   cutoffDate |-> 0, allLogs |-> <<>>]

\* an entry written through OperationLogger.log by an earlier client (the
\* logger accepts the application "contacts"; no backend here logs it)
ContactsSeed ==
  [id |-> Uuid("a1b2c3d4", 0), timestamp |-> 0, operation |-> "delete",
   app |-> "contacts", target |-> Target("name", "Ann"), before |-> SnapStr("card"),
   after |-> SnapNull, confirmed |-> TRUE, folder |-> Undef, user |-> User(ProcessUser)]

\* the log a process may find when it starts
InitialLogs == {NoFile, File(<<Line(ContactsSeed)>>)}

\* op: the tool; kind: "returned", "error", or the outcome of recover
LastNone == [op |-> "none", kind |-> "", message |-> ""]

Ctx == NewCtx(fs, cfg, now, nextId)

\* a call ends: its effects on the files become the state
Commit(ctx, trace) ==
  /\ ctx.nextId <= MaxIds
  /\ fs' = ctx.fs
  /\ nextId' = ctx.nextId
  /\ now' = ctx.now
  /\ last' = trace
  /\ UNCHANGED <<cfg, suspended>>

\* a backend call, as the tool dispatcher sees it: a result or an error response
BackendTrace(op, r) ==
  [LastNone EXCEPT !.op = op, !.kind = IF r.threw THEN "error" ELSE "returned",
                   !.message = r.value]

\* a backend tool call may start
CanCallBackend == backendCalls < MaxBackendCalls

\* a backend tool call ends
CommitBackend(op, r) ==
  /\ backendCalls' = backendCalls + 1
  /\ Commit(r.ctx, BackendTrace(op, r))

Init ==
  /\ fs \in {Files(l, NoFile) : l \in InitialLogs}
  /\ cfg \in Configs
  /\ now = 0
  /\ nextId = 0
  /\ backendCalls = 0
  /\ last = LastNone
  /\ suspended = NoCall

\* the process is started again with another environment
Restart ==
  /\ cfg' \in Configs \ {cfg}
  /\ last' = LastNone
  /\ suspended' = NoCall
  /\ UNCHANGED <<fs, now, nextId, backendCalls>>

Titles == {"Buy milk"}
ConfirmTexts == Titles \cup {"buy milk"}
FolderArgs == {Undef, "Work"}
ListArgs == {Undef, "Tasks"}

NotesCreateCall ==
  /\ CanCallBackend
  /\ \E title \in Titles :
       \E r \in NotesCreate(Ctx, title, "old content", "Work", FALSE) :
         CommitBackend("notes.create", r)

NotesUpdateCall ==
  /\ CanCallBackend
  /\ \E title \in Titles :
       \E r \in NotesUpdate(Ctx, title, "new content", "Work") :
         CommitBackend("notes.update", r)

NotesDeleteCall ==
  /\ CanCallBackend
  /\ \E title \in Titles, confirmTitle \in ConfirmTexts, folder \in FolderArgs :
       \E r \in NotesDelete(Ctx, title, confirmTitle, folder) :
         CommitBackend("notes.delete", r)

RemindersAddCall ==
  /\ CanCallBackend
  /\ \E text \in Titles :
       \E r \in RemindersAdd(Ctx, text, Undef, "Tasks") :
         CommitBackend("reminders.add", r)

RemindersCompleteCall ==
  /\ CanCallBackend
  /\ \E text \in Titles :
       \E r \in RemindersComplete(Ctx, text, "Tasks") :
         CommitBackend("reminders.complete", r)

RemindersUpdateCall ==
  /\ CanCallBackend
  /\ \E text \in Titles :
       \E r \in RemindersUpdate(Ctx, text, "Buy oat milk", Undef, "Tasks") :
         CommitBackend("reminders.update", r)

RemindersDeleteCall ==
  /\ CanCallBackend
  /\ \E text \in Titles, confirmText \in ConfirmTexts, listName \in ListArgs :
       \E r \in RemindersDelete(Ctx, text, confirmText, listName) :
         CommitBackend("reminders.delete", r)

CalendarCreateEventCall ==
  /\ CanCallBackend
  /\ \E r \in CalendarCreateEvent(Ctx, "Standup", "2024-01-01 10:00", "2024-01-01 11:00",
                                  "Work", Undef) :
       CommitBackend("calendar.createEvent", r)

CalendarDeleteEventCall ==
  /\ CanCallBackend
  /\ \E confirmSummary \in {"Standup", "standup"} :
       \E r \in CalendarDeleteEvent(Ctx, "Standup", "2024-01-01 10:00", confirmSummary) :
         CommitBackend("calendar.deleteEvent", r)

\* what the dispatcher returns for recovery_recover
RecoverTrace(operationId, o) ==
  [LastNone EXCEPT !.op = "recover", !.kind = o.kind,
                   !.message = IF o.kind = "success" THEN o.detail ELSE o.message]

\* the id typed again, or its first 8 characters typed instead
ConfirmArgs(operationId) == {operationId, [operationId EXCEPT !.n = 0, !.len = PrefixLen]}

\* recovery_recover
RecoverCall ==
  \E operationId \in IdArgs :
    \E confirmId \in ConfirmArgs(operationId) :
      \E o \in recover(Ctx, operationId, confirmId) :
      /\ Commit(o.ctx, RecoverTrace(operationId, o))
      /\ UNCHANGED backendCalls

\* recovery_details
DetailsCall ==
  \E operationId \in IdArgs, readOk \in BOOLEAN :
    LET d == getRecoveryDetails(fs, operationId, readOk) IN
    /\ Commit(Ctx, [LastNone EXCEPT !.op = "details",
                      !.kind = IF d.threw THEN "error" ELSE "returned"])
    /\ UNCHANGED backendCalls

ListLimits == {NoLimit, Limit(0), Limit(1)}
ListOptions ==
  {Options(Undef, Undef, limit) : limit \in ListLimits}
    \cup {Options("delete", "notes", NoLimit)}

\* recovery_list
ListCall ==
  \E options \in ListOptions, readOk \in BOOLEAN :
    LET r == listRecoverableOperations(fs, options, readOk) IN
    /\ Commit(Ctx, [LastNone EXCEPT !.op = "list",
                      !.kind = IF r.threw THEN "error" ELSE "returned"])
    /\ UNCHANGED backendCalls

Next ==
  \/ Restart
  \/ NotesCreateCall
  \/ NotesUpdateCall
  \/ NotesDeleteCall
  \/ RemindersAddCall
  \/ RemindersCompleteCall
  \/ RemindersUpdateCall
  \/ RemindersDeleteCall
  \/ CalendarCreateEventCall
  \/ CalendarDeleteEventCall
  \/ RecoverCall
  \/ DetailsCall
  \/ ListCall

Spec == Init /\ [][Next]_vars

(***************************************************************************)
(* The same process started on a log file that other writers have touched  *)
(***************************************************************************)
\* a note deleted by an earlier run
NotesSeed ==
  [id |-> Uuid("a1b2c3d4", 0), timestamp |-> 0, operation |-> "delete",
   app |-> "notes", target |-> Target("title", "Buy milk"),
   before |-> SnapStr("old content"), after |-> SnapNull, confirmed |-> TRUE,
   folder |-> "Work", user |-> User(ProcessUser)]

\* {"id": "a1b2c3d4-...", "timestamp": "..."}: valid JSON without data
DamagedSeed == [NullEntry EXCEPT !.id = Uuid("a1b2c3d4", 0)]

\* files with lines that are not JSON, or JSON that is not a whole entry
DamagedLogs ==
  {File(<<GarbageLine, Line(NotesSeed)>>),
   File(<<NoDataLine(DamagedSeed), GarbageLine>>),
   File(<<GarbageLine>>)}

InitAnyFile ==
  /\ fs \in {Files(l, NoFile) : l \in DamagedLogs}
  /\ cfg \in Configs
  /\ now = 0
  /\ nextId = 0
  /\ backendCalls = 0
  /\ last = LastNone
  /\ suspended = NoCall

NextAnyFile ==
  \/ Restart
  \/ RecoverCall
  \/ DetailsCall
  \/ ListCall

SpecAnyFile == InitAnyFile /\ [][NextAnyFile]_vars

(***************************************************************************)
(* The same process started on a log that has grown past the list limit    *)
(***************************************************************************)
\* the k-th entry of a long-used log: every third one a create entry, the
\* others delete entries with a before snapshot, Notes and Reminders in turn
BulkEntry(k) ==
  [id |-> Uuid("0f9e8d7c", k), timestamp |-> k - 2 * DefaultListLimit,
   operation |-> IF k % 3 = 0 THEN "create" ELSE "delete",
   app |-> IF k % 2 = 0 THEN "notes" ELSE "reminders",
   target |-> IF k % 2 = 0 THEN Target("title", "Buy milk") ELSE Target("text", "Buy milk"),
   before |-> IF k % 3 = 0 THEN SnapUndef
              ELSE IF k % 2 = 0 THEN SnapStr("old content")
              ELSE [SnapObj EXCEPT !.text = "Buy milk"],
   after |-> IF k % 3 # 0 THEN SnapNull
             ELSE IF k % 2 = 0 THEN SnapStr("old content")
             ELSE [SnapObj EXCEPT !.text = "Buy milk"],
   confirmed |-> k % 3 # 0, folder |-> "Work", user |-> User(ProcessUser)]

BulkLog(n) == File([k \in 1..n |-> Line(BulkEntry(k))])

\* one entry fewer than the default list limit, as many, one more, two more
BulkSizes == (DefaultListLimit - 1)..(DefaultListLimit + 2)

InitBulk ==
  /\ fs \in {Files(BulkLog(n), NoFile) : n \in BulkSizes}
  /\ cfg \in Configs
  /\ now = 0
  /\ nextId = 0
  /\ backendCalls = 0
  /\ last = LastNone
  /\ suspended = NoCall

NextBulk ==
  \/ Restart
  \/ RemindersCompleteCall
  \/ DetailsCall
  \/ ListCall

SpecBulk == InitBulk /\ [][NextBulk]_vars

(***************************************************************************)
(* The same process started on a log that has grown past the stats limit   *)
(***************************************************************************)
\* one entry fewer than the stats limit, as many, one more, two more
StatsSizes == (StatsLimit - 1)..(StatsLimit + 2)

\* recovery_stats
StatsCall ==
  \E readOk \in BOOLEAN :
    LET r == getRecoveryStats(fs, readOk) IN
    /\ Commit(Ctx, [LastNone EXCEPT !.op = "stats",
                      !.kind = IF r.threw THEN "error"
                               ELSE IF r.totalOperations = StatsLimit THEN "limit reached"
                               ELSE "returned"])
    /\ UNCHANGED backendCalls

InitStats ==
  /\ fs \in {Files(BulkLog(n), NoFile) : n \in StatsSizes}
  /\ cfg \in Configs
  /\ now = 0
  /\ nextId = 0
  /\ backendCalls = 0
  /\ last = LastNone
  /\ suspended = NoCall

NextStats ==
  \/ Restart
  \/ RemindersCompleteCall
  \/ StatsCall

SpecStats == InitStats /\ [][NextStats]_vars

(***************************************************************************)
(* The logger driven directly, as its own callers and tests drive it       *)
(***************************************************************************)
\* arguments of log(): a deleted note, an update of a very long note, a
\* created reminder
LogInputs ==
  { [operation |-> "delete", app |-> "notes", target |-> Target("title", "Buy milk"),
     before |-> SnapStr("old content"), after |-> SnapNull,
     metadata |-> Meta("true", "Work", User(Undef))],
    [operation |-> "update", app |-> "notes", target |-> Target("title", "Buy milk"),
     before |-> SnapStr(HugeBody), after |-> SnapStr("new content"),
     metadata |-> Meta(Undef, "Work", User(Undef))],
    [operation |-> "create", app |-> "reminders", target |-> Target("text", "Buy milk"),
     before |-> SnapUndef, after |-> [SnapObj EXCEPT !.text = "Buy milk"],
     metadata |-> Meta(Undef, "Tasks", User(Undef))] }

\* logger.log(operation, app, target, data, metadata)
LogCall ==
  \E a \in LogInputs :
    \E l \in Log(Ctx, a.operation, a.app, a.target, a.before, a.after, a.metadata) :
      /\ Commit(l.ctx, [LastNone EXCEPT !.op = "log",
                          !.kind = IF l.id = NoId THEN "empty id" ELSE "id"])
      /\ UNCHANGED backendCalls

\* logger.readLogs(), logger.getOperationsByApp("notes", 1)
ReadLogsCall ==
  \E options \in {NoOptions, Options(Undef, "notes", Limit(1))}, readOk \in BOOLEAN :
    LET logs == readLogs(fs, options, readOk) IN
    /\ Commit(Ctx, [LastNone EXCEPT !.op = "readLogs",
                      !.kind = IF logs = <<>> THEN "empty" ELSE "entries"])
    /\ UNCHANGED backendCalls

\* logger.getOperation(id)
GetOperationCall ==
  \E id \in IdArgs, readOk \in BOOLEAN :
    LET op == getOperation(fs, id, readOk) IN
    /\ Commit(Ctx, [LastNone EXCEPT !.op = "getOperation",
                      !.kind = IF op.found THEN "entry" ELSE "null"])
    /\ UNCHANGED backendCalls

\* the instants the cut-off of a cleanup may fall on: the clock is not
\* before the newest entry, the retention days are not negative
CutoffDates == 0..(now + 1)

\* logger.cleanupOldLogs()
CleanupCall ==
  \E cutoffDate \in CutoffDates, readOk \in BOOLEAN, writeOk \in BOOLEAN :
    LET r == cleanupOldLogs(fs, cutoffDate, readOk, writeOk) IN
    /\ Commit([Ctx EXCEPT !.fs = r.fs],
              [LastNone EXCEPT !.op = "cleanup",
                 !.kind = IF r.threw THEN "error"
                          ELSE IF r.removedCount > 0 THEN "removed" ELSE "nothing removed"])
    /\ UNCHANGED backendCalls

NextLogger ==
  \/ Restart
  \/ LogCall
  \/ ReadLogsCall
  \/ GetOperationCall
  \/ CleanupCall
  \/ DetailsCall

\* the process starts without a log file
InitLogger ==
  /\ fs = Files(NoFile, NoFile)
  /\ cfg \in Configs
  /\ now = 0
  /\ nextId = 0
  /\ backendCalls = 0
  /\ last = LastNone
  /\ suspended = NoCall

SpecLogger == InitLogger /\ [][NextLogger]_vars

(***************************************************************************)
(* cleanupOldLogs next to other calls: the call waits at "await readLogs()" *)
(***************************************************************************)
\* cleanupOldLogs() is called: it computes the cut-off, reads the log and
\* waits; other calls run before it goes on
CleanupStart ==
  /\ suspended.phase \in {"idle", "returned", "thrown"}
  /\ \E cutoffDate \in CutoffDates, readOk \in BOOLEAN :
       suspended' = [NoCall EXCEPT !.call = "cleanupOldLogs", !.phase = "await readLogs",
                                   !.cutoffDate = cutoffDate,
                                   !.allLogs = readLogs(fs, NoOptions, readOk)]
  /\ last' = [LastNone EXCEPT !.op = "cleanup", !.kind = "suspended"]
  /\ UNCHANGED <<fs, cfg, now, nextId, backendCalls>>

\* the suspended cleanupOldLogs() goes on: filter, rewrite, return
CleanupResume ==
  /\ suspended.call = "cleanupOldLogs"
  /\ suspended.phase = "await readLogs"
  /\ \E writeOk \in BOOLEAN :
       LET r == cleanupAfterRead(fs, suspended.allLogs, suspended.cutoffDate, writeOk) IN
       /\ fs' = r.fs
       /\ suspended' = [suspended EXCEPT !.phase = IF r.threw THEN "thrown" ELSE "returned"]
       /\ last' = [LastNone EXCEPT !.op = "cleanup",
                     !.kind = IF r.threw THEN "error"
                              ELSE IF r.removedCount > 0 THEN "removed"
                              ELSE "nothing removed"]
  /\ UNCHANGED <<cfg, now, nextId, backendCalls>>

NextRace ==
  \/ Restart
  \/ LogCall
  \/ CleanupStart
  \/ CleanupResume

SpecRace == InitLogger /\ [][NextRace]_vars

(***************************************************************************)
(* AppleScriptRunner.execute (utils/apple-script.ts), one attempt a step   *)
(***************************************************************************)
MAX_RETRIES == 3
RETRY_DELAY_MS == 500

\* how one run of osascript ends: output, or an error whose message holds
\* the given text ("other": none of the texts execute looks for)
ExecOutcomes == {"stdout", "-609", "maxBuffer", "-1743", "-600", "other"}

\* appName || extractAppName(script); "" when there is none
TargetApps == {"Notes", "Reminders", "Calendar", ""}

\* a faulty variant: "application is not running" is retried as well
Caught_m(outcome, attempt) ==
  IF outcome \in {"-609", "-600"}
    THEN IF attempt < MAX_RETRIES
           THEN [next |-> "sleep", delay |-> RETRY_DELAY_MS * attempt, message |-> outcome]
           ELSE [next |-> "throw", delay |-> 0, message |-> "macOS Connection Error"]
  ELSE [next |-> "throw", delay |-> 0, message |-> ExecFailed]

\* the body of the retry loop after osascript ended the given way
Caught(outcome, attempt) ==
  IF outcome = "stdout"
    THEN [next |-> "return", delay |-> 0, message |-> ""]
  ELSE IF outcome = "-609"
    THEN IF attempt < MAX_RETRIES
           THEN [next |-> "sleep", delay |-> RETRY_DELAY_MS * attempt, message |-> outcome]
           ELSE [next |-> "throw", delay |-> 0, message |-> "macOS Connection Error"]
  ELSE IF outcome = "maxBuffer"
    THEN [next |-> "throw", delay |-> 0, message |-> "Note content exceeds 50MB limit"]
  ELSE IF outcome = "-1743"
    THEN [next |-> "throw", delay |-> 0, message |-> "macOS Permission Denied"]
  ELSE IF outcome = "-600"
    THEN [next |-> "throw", delay |-> 0, message |-> "macOS Application Error"]
  ELSE [next |-> "throw", delay |-> 0, message |-> ExecFailed]

\* execute(script, appName) is called: the first attempt starts
ExecuteStart ==
  /\ suspended.phase \in {"idle", "returned", "thrown"}
  /\ \E app \in TargetApps :
       suspended' = [NoCall EXCEPT !.call = "execute", !.phase = "osascript",
                                   !.app = app, !.attempt = 1]
  /\ last' = [LastNone EXCEPT !.op = "execute", !.kind = "running"]
  /\ UNCHANGED <<fs, cfg, now, nextId, backendCalls>>

\* osascript ends: execute returns, throws, or sleeps before the next attempt
ExecuteSettle ==
  /\ suspended.call = "execute"
  /\ suspended.phase = "osascript"
  /\ \E outcome \in ExecOutcomes :
       LET c == Caught(outcome, suspended.attempt) IN
       /\ suspended' =
            [suspended EXCEPT !.phase = IF c.next = "return" THEN "returned"
                                        ELSE IF c.next = "throw" THEN "thrown"
                                        ELSE "sleep",
                              !.delay = c.delay]
       /\ last' = [LastNone EXCEPT !.op = "execute",
                     !.kind = IF c.next = "return" THEN "returned"
                              ELSE IF c.next = "throw" THEN "error" ELSE "retrying",
                     !.message = c.message]
  /\ UNCHANGED <<fs, cfg, now, nextId, backendCalls>>

\* the sleep is over: continue with the next attempt
ExecuteWake ==
  /\ suspended.call = "execute"
  /\ suspended.phase = "sleep"
  /\ suspended' = [suspended EXCEPT !.phase = "osascript", !.attempt = @ + 1]
  /\ last' = [last EXCEPT !.kind = "running"]
  /\ UNCHANGED <<fs, cfg, now, nextId, backendCalls>>

NextExecute ==
  \/ ExecuteStart
  \/ ExecuteSettle
  \/ ExecuteWake

\* osascript ends and timers fire
SpecExecute ==
  /\ Init
  /\ [][NextExecute]_vars
  /\ WF_vars(ExecuteSettle)
  /\ WF_vars(ExecuteWake)

(***************************************************************************)
(* Properties of recover(operationId, confirmId)                           *)
(***************************************************************************)
\* the entries of the active file that an id selects (full id, or a prefix
\* of at least 8 characters)
Selected(operationId) ==
  {fs.log.lines[i].e : i \in {j \in DOMAIN fs.log.lines :
     LET id == fs.log.lines[j].e.id IN
       \/ id = operationId
       \/ operationId.len >= 8 /\ operationId.len < id.len /\ id.pfx = operationId.pfx}}

\* the call left the world alone: no log read, no automation command, no
\* backend call, no logger call, the files as they were
Untouched(o) ==
  /\ o.ctx.reads = 0
  /\ o.ctx.execs = 0
  /\ o.ctx.calls = <<>>
  /\ o.ctx.logCalls = 0
  /\ o.ctx.fs = fs

\* C1: recover(id, confirmId) with id different from confirmId returns
\* success=false, reads the log zero times, issues no automation command,
\* calls no backend and appends no log entry.
C1_MismatchTouchesNothing ==
  \A operationId \in IdArgs : \A confirmId \in IdArgs \ {operationId} :
    \A o \in recover(Ctx, operationId, confirmId) :
      o.kind = "failure" /\ Untouched(o)

\* a recover call was cancelled while the log held a recoverable entry that
\* the first 8 characters of an id select
C1_Witness ==
  /\ last.op = "recover"
  /\ last.kind = "failure"
  /\ last.message = "Recovery cancelled"
  /\ \E e \in Selected([pfx |-> "a1b2c3d4", n |-> 0, len |-> PrefixLen]) :
       e.operation = "delete" /\ e.app = "notes" /\ e.before.t = "string"

SupportedApps == {"notes", "reminders", "calendar"}

\* C2: recover(id, id) for an id that selects no entry, or only entries that
\* have no before snapshot, are of kind create, or belong to an application
\* other than Notes, Reminders and Calendar, returns success=false, issues
\* no automation command, calls no backend and appends no log entry.
C2_RejectedTouchesNothing ==
  \A operationId \in IdArgs :
    (\A e \in Selected(operationId) :
        \/ e.before.t = "undefined"
        \/ e.operation = "create"
        \/ e.app \notin SupportedApps)
    => \A o \in recover(Ctx, operationId, operationId) :
         /\ o.kind = "failure"
         /\ o.ctx.execs = 0
         /\ o.ctx.calls = <<>>
         /\ o.ctx.logCalls = 0
         /\ o.ctx.fs = fs

\* a recover call was rejected because the selected entry belongs to an
\* application without a recovery procedure
C2_Witness ==
  /\ last.op = "recover"
  /\ last.kind = "failure"
  /\ last.message = "Recovery not supported for app"
  /\ \E i \in DOMAIN fs.log.lines : fs.log.lines[i].e.operation = "create"

\* the entries on disk (active file and .old) after a call, that were not
\* there before it
NewOnDisk(o) ==
  LET after == o.ctx.fs.log.lines \o o.ctx.fs.old.lines
      before == fs.log.lines \o fs.old.lines
  IN {after[i].e : i \in DOMAIN after} \ {before[i].e : i \in DOMAIN before}

\* x is the entry recover writes for the original entry e
IsSyntheticOf(x, e) ==
  /\ x.operation = "create"
  /\ x.app = e.app
  /\ x.target = e.target
  /\ x.after = e.before
  /\ x.confirmed = TRUE
  /\ x.user.viaRecovery >= 1

\* C3 (as stated): whenever recover(id, id) returns success=true, the log
\* afterwards contains a new create entry with the application and target of
\* the original entry, data.after equal to the original before snapshot,
\* confirmed true and an actor ending with the recovery suffix, and
\* newOperationId is the non-empty id of that entry.
C3_SuccessAlwaysLogged ==
  \A operationId \in IdArgs :
    \A o \in recover(Ctx, operationId, operationId) :
      o.kind = "success" =>
        /\ o.newOperationId # NoId
        /\ \E e \in Selected(operationId) : \E x \in NewOnDisk(o) :
             x.id = o.newOperationId /\ IsSyntheticOf(x, e)

\* C3 (amended): when recover(id, id) returns success=true with a non-empty
\* newOperationId, that id is the id of a new create entry on disk with the
\* application and target of the original entry, data.after equal to the
\* original before snapshot, confirmed true and an actor ending with the
\* recovery suffix; newOperationId is empty only when logging is disabled or
\* an append failed, and with logging disabled the files are not written.
C3_SuccessLoggedWhenWritable ==
  \A operationId \in IdArgs :
    \A o \in recover(Ctx, operationId, operationId) :
      o.kind = "success" =>
        /\ o.newOperationId # NoId =>
             \E e \in Selected(operationId) : \E x \in NewOnDisk(o) :
               x.id = o.newOperationId /\ IsSyntheticOf(x, e)
        /\ o.newOperationId = NoId => ~cfg.loggingEnabled \/ o.ctx.writeFailed
        /\ ~cfg.loggingEnabled => o.newOperationId = NoId /\ o.ctx.fs = fs

\* a recover call succeeded and its create entry is the last line of the
\* active file
C3_Witness ==
  /\ last.op = "recover"
  /\ last.kind = "success"
  /\ cfg.loggingEnabled
  /\ fs.log.lines # <<>>
  /\ LET x == fs.log.lines[Len(fs.log.lines)].e IN
       /\ x.operation = "create"
       /\ x.confirmed
       /\ x.user.viaRecovery = 1
       /\ \E i \in DOMAIN fs.log.lines :
            LET e == fs.log.lines[i].e IN
              e.operation = "delete" /\ e.target = x.target /\ e.before = x.after

\* C4 (as stated): a successful recover(id, id) adds no entry besides the
\* synthetic one: every backend create / add / createEvent call of the
\* fallback runs in skip-log mode and at most one entry is written.
C4_OneEntryPerRecovery ==
  \A operationId \in IdArgs :
    \A o \in recover(Ctx, operationId, operationId) :
      o.kind = "success" =>
        /\ Len(o.ctx.logged) <= 1
        /\ \A i \in DOMAIN o.ctx.calls : o.ctx.calls[i].skipLog

\* C5: whenever recover returns success=false, the files of the log are as
\* they were before the call and the logger wrote no entry.
C5_FailureLeavesLog ==
  \A operationId \in IdArgs : \A confirmId \in IdArgs :
    \A o \in recover(Ctx, operationId, confirmId) :
      o.kind = "failure" => o.ctx.fs = fs /\ o.ctx.logged = <<>>

\* a recover call failed inside the restoration step (the executor threw
\* during native restoration or re-creation) while logging was enabled
C5_Witness ==
  /\ last.op = "recover"
  /\ last.kind = "failure"
  /\ last.message = "Recovery failed"
  /\ cfg.loggingEnabled
  /\ fs.log.lines # <<>>

\* the entry a full id names, when it is an update or delete entry of one of
\* the applications with a truthy before snapshot
RecoverableIn(operationId, apps) ==
  {e \in Selected(operationId) :
     /\ operationId.len = UuidLen
     /\ e.app \in apps
     /\ e.operation # "create"
     /\ Truthy(e.before)}

\* C9: for a recoverable Notes or Reminders entry the native restoration
\* script runs before any backend create / add call, and when it returns
\* success no backend call is made and the outcome is success=true with a
\* message saying the item was recovered natively.
C9_NativeFirst ==
  \A operationId \in IdArgs :
    RecoverableIn(operationId, {"notes", "reminders"}) # {} =>
      \A o \in recover(Ctx, operationId, operationId) :
        /\ o.ctx.execs >= 1 => o.ctx.native # Undef
        /\ \A i \in DOMAIN o.ctx.calls :
             o.ctx.calls[i].execsBefore >= 1 /\ o.ctx.native # "native_success"
        /\ o.ctx.native = "native_success" =>
             /\ o.ctx.calls = <<>>
             /\ o.ctx.execs = 1
             /\ o.kind = "success"
             /\ o.detail = RecoveredNatively

\* a reminder was recovered natively and the create entry for it is the
\* last line of the active file
C9_Witness ==
  /\ last.op = "recover"
  /\ last.kind = "success"
  /\ last.message = RecoveredNatively
  /\ fs.log.lines # <<>>
  /\ LET x == fs.log.lines[Len(fs.log.lines)].e IN
       x.app = "reminders" /\ x.operation = "create" /\ x.user.viaRecovery = 1

\* the backend calls recover makes when native restoration of the Notes
\* entry e did not succeed and the re-created note goes to the container
NotesFallbackCalls(e, container) ==
  <<[CallRec("notes.create", e.target.value, e.before.s, container, Undef, Undef, TRUE)
       EXCEPT !.execsBefore = 1]>>

\* the native restoration script ran and did not report success
NativeFailed(o) == o.ctx.native \notin {Undef, "native_success"}

\* C10 (as stated): for a recoverable Notes entry, every native outcome other
\* than success leads to exactly one Notes create call with the logged
\* title, the logged before content, the logged container and skipLog=true,
\* and recover returns success=true unless that call throws.
C10_FallbackUsesLoggedContainer ==
  \A operationId \in IdArgs :
    \A e \in RecoverableIn(operationId, {"notes"}) :
      \A o \in recover(Ctx, operationId, operationId) :
        NativeFailed(o) =>
          /\ o.ctx.calls = NotesFallbackCalls(e, e.folder)
          /\ o.kind = "success" \/ (o.kind = "failure" /\ o.detail = ExecFailed)

\* C10 (amended): as above, with the container being the logged one, or the
\* folder "Notes" when the entry logged no container.
C10_FallbackUsesLoggedOrNotes ==
  \A operationId \in IdArgs :
    \A e \in RecoverableIn(operationId, {"notes"}) :
      \A o \in recover(Ctx, operationId, operationId) :
        NativeFailed(o) =>
          /\ o.ctx.calls =
               NotesFallbackCalls(e, IF e.folder \in {Undef, ""} THEN "Notes" ELSE e.folder)
          /\ o.kind = "success" \/ (o.kind = "failure" /\ o.detail = ExecFailed)

\* a note deleted without a recorded container was re-created by the
\* fallback and the create entry for it is the last line of the active file
C10_Witness ==
  /\ last.op = "recover"
  /\ last.kind = "success"
  /\ last.message = "created successfully"
  /\ fs.log.lines # <<>>
  /\ LET x == fs.log.lines[Len(fs.log.lines)].e IN
       /\ x.app = "notes" /\ x.operation = "create" /\ x.user.viaRecovery = 1
       /\ x.folder = Undef

\* C6 (as stated): recover never throws: for every id, every confirmation,
\* every log content and every failure of the executor or of a backend it
\* returns success=true or success=false.
C6_RecoverNeverThrows ==
  last.op = "recover" => last.kind \in {"success", "failure"}

(***************************************************************************)
(* Properties of getRecoveryDetails and listRecoverableOperations          *)
(***************************************************************************)
\* C7 (as stated): for every entry of the log, getRecoveryDetails(id) finds
\* it and reports canRecover = true exactly when data.before is present
\* (whatever its value, an empty note body included) and the kind is not
\* create.
C7_CanRecoverIffBeforePresent ==
  \A i \in DOMAIN fs.log.lines :
    LET e == fs.log.lines[i].e
        d == getRecoveryDetails(fs, e.id, TRUE)
    IN /\ d.found
       /\ ~d.threw
       /\ d.canRecover <=> (e.before.t # "undefined" /\ e.operation # "create")

\* the filters and limits a caller may pass to listRecoverableOperations
C8Options ==
  {Options(operation, app, limit) :
     operation \in {Undef, "delete", "update"},
     app \in {Undef, "notes", "reminders"},
     limit \in {NoLimit, Limit(0), Limit(1), Limit(DefaultListLimit + 1)}}

\* the entries with data.before defined among those readLogs returns for
\* the filter of options and the given limit, in the order of readLogs
QueryWithBefore(options, limit) ==
  SelectSeq(readLogs(fs, [options EXCEPT !.limit = limit], TRUE),
            LAMBDA l : l.e.before.t # "undefined")

\* C8 (as stated): listRecoverableOperations(filter) returns exactly the
\* entries with data.before defined among the entries readLogs returns for
\* the same application / kind filter and limit (50 when no limit is
\* given), in the same newest-first order.
C8_ListIsFilteredQuery ==
  \A options \in C8Options :
    LET r == listRecoverableOperations(fs, options, TRUE) IN
    /\ ~r.threw
    /\ r.entries =
         QueryWithBefore(options, IF options.limit.defined THEN options.limit
                                  ELSE Limit(DefaultListLimit))

\* C8 (amended): as above, with the limit being 50 when no limit is given
\* or the given limit is 0; no entry without data.before is returned.
C8_ListIsFilteredQueryOr50 ==
  \A options \in C8Options :
    LET r == listRecoverableOperations(fs, options, TRUE) IN
    /\ ~r.threw
    /\ r.entries =
         QueryWithBefore(options, IF options.limit.defined /\ options.limit.n # 0
                                  THEN options.limit ELSE Limit(DefaultListLimit))
    /\ \A i \in DOMAIN r.entries : r.entries[i].e.before.t # "undefined"

\* recovery_list returned on a log holding more entries than the default
\* limit, the oldest of them with a before snapshot, some without
C8_Witness ==
  /\ last.op = "list"
  /\ last.kind = "returned"
  /\ Len(fs.log.lines) > DefaultListLimit
  /\ fs.log.lines[1].e.before.t # "undefined"
  /\ \E i \in DOMAIN fs.log.lines : fs.log.lines[i].e.before.t = "undefined"

(***************************************************************************)
(* Properties of the fallback for Reminders and Calendar entries           *)
(***************************************************************************)
\* C11 (as stated): for a reminder deleted through Reminders.delete and
\* recovered through the fallback, reminders.add is called once with the
\* logged text, the due date that delete recorded in data.before (when it
\* recorded one) and the logged list (when it recorded one).
C11_FallbackUsesLoggedDue ==
  \A operationId \in IdArgs :
    \A e \in RecoverableIn(operationId, {"reminders"}) :
      e.operation = "delete" =>
        \A o \in recover(Ctx, operationId, operationId) :
          NativeFailed(o) =>
            /\ Len(o.ctx.calls) = 1
            /\ o.ctx.calls[1].fn = "reminders.add"
            /\ o.ctx.calls[1].args[1] = e.target.value
            /\ TruthyStr(e.before.due) => o.ctx.calls[1].args[2] = e.before.due
            /\ TruthyStr(e.folder) => o.ctx.calls[1].args[3] = e.folder

\* the backend call recover makes for the Calendar entry e
CalendarRecreateCalls(e) ==
  <<CallRec("calendar.createEvent", e.target.value, e.before.startDate, e.before.endDate,
            e.before.calendar, e.before.location, FALSE)>>

\* the snapshot of a Calendar entry has what re-creation needs
CalendarSnapshotComplete(e) ==
  /\ TruthyStr(TargetField(e.target, "summary"))
  /\ TruthyStr(e.before.startDate)
  /\ TruthyStr(e.before.endDate)

\* recover got the entry from the log (reading the file can fail, and then
\* no entry is found)
EntryFound(o) == o.message # "not found"

\* C12: for a recoverable Calendar entry no native restoration is tried; when
\* the before snapshot lacks a start or an end date (or the target lacks a
\* summary) recover returns success=false with no automation command, no
\* backend call and no log entry; otherwise, once the entry is read,
\* createEvent is the first thing done, called once with the logged
\* summary, start, end, calendar and location.
C12_CalendarRecreatesFromSnapshot ==
  \A operationId \in IdArgs :
    \A e \in RecoverableIn(operationId, {"calendar"}) :
      \A o \in recover(Ctx, operationId, operationId) :
        /\ o.ctx.native = Undef
        /\ ~CalendarSnapshotComplete(e) =>
             /\ o.kind = "failure"
             /\ o.ctx.execs = 0
             /\ o.ctx.calls = <<>>
             /\ o.ctx.logCalls = 0
             /\ o.ctx.fs = fs
        /\ CalendarSnapshotComplete(e) /\ EntryFound(o) =>
             o.ctx.calls = CalendarRecreateCalls(e)

\* recover failed in the restoration step on a log whose newest entry is a
\* deleted event recorded without its start and end dates
C12_Witness ==
  /\ last.op = "recover"
  /\ last.kind = "failure"
  /\ last.message = "Recovery failed"
  /\ fs.log.lines # <<>>
  /\ LET x == fs.log.lines[Len(fs.log.lines)].e IN
       /\ x.app = "calendar" /\ x.operation = "delete"
       /\ x.before.startDate = Undef /\ x.before.endDate = Undef

(***************************************************************************)
(* Properties of OperationLogger                                           *)
(***************************************************************************)
\* C13: with logging disabled by configuration log() returns the empty id
\* and does no file I/O: no line is written, no uuid or rotation is made
\* (an oversize active file stays where it is), both files are unchanged.
C13_DisabledLoggingDoesNothing ==
  ~cfg.loggingEnabled =>
    \A a \in LogInputs :
      \A l \in Log(Ctx, a.operation, a.app, a.target, a.before, a.after, a.metadata) :
      /\ l.id = NoId
      /\ l.ctx.fs = fs
      /\ l.ctx.nextId = nextId
      /\ l.ctx.logged = <<>>
      /\ ~l.ctx.writeFailed

\* log() returned the empty id with logging disabled while the active file
\* was over the maximum (an earlier rotation had failed), and the file is
\* still there
C13_Witness ==
  /\ ~cfg.loggingEnabled
  /\ last.op = "log"
  /\ last.kind = "empty id"
  /\ fs.log.exists
  /\ StatSize(fs.log) > cfg.maxLogSizeMB * MB

\* the backend calls of the tool dispatcher, with their results
BackendResults ==
  NotesCreate(Ctx, "Buy milk", "old content", "Work", FALSE)
    \cup NotesUpdate(Ctx, "Buy milk", "new content", "Work")
    \cup NotesDelete(Ctx, "Buy milk", "Buy milk", Undef)
    \cup RemindersAdd(Ctx, "Buy milk", Undef, "Tasks")
    \cup RemindersComplete(Ctx, "Buy milk", "Tasks")
    \cup RemindersUpdate(Ctx, "Buy milk", "Buy oat milk", Undef, "Tasks")
    \cup RemindersDelete(Ctx, "Buy milk", "Buy milk", Undef)
    \cup CalendarCreateEvent(Ctx, "Standup", "2024-01-01 10:00", "2024-01-01 11:00",
                             "Work", Undef)
    \cup CalendarDeleteEvent(Ctx, "Standup", "2024-01-01 10:00", "Standup")

\* C14: log() never throws: when writing the line fails it returns the empty
\* id and leaves the files alone, when the rotation fails it still returns,
\* and a backend operation that got as far as logging returns its success
\* result whatever happened to the log.
C14_AppendNeverThrows ==
  /\ \A a \in LogInputs :
       \A l \in Log(Ctx, a.operation, a.app, a.target, a.before, a.after, a.metadata) :
         l.ctx.writeFailed => l.id = NoId /\ l.ctx.fs = fs
  /\ \A r \in BackendResults :
       r.ctx.logCalls >= 1 =>
         /\ ~r.threw
         /\ r.ctx.writeFailed => r.ctx.fs = fs

\* a note was updated with logging enabled and the update returned its
\* success result although no entry reached the log
C14_Witness ==
  /\ last.op = "notes.update"
  /\ last.kind = "returned"
  /\ cfg.loggingEnabled
  /\ nextId = 0
  /\ fs = Files(NoFile, NoFile)

\* C15: when the file system calls succeed, an append that leaves the active
\* file larger than the configured maximum (MB x 1024 x 1024 bytes) renames
\* it to the .old sibling, whose earlier content is replaced, and leaves no
\* active file until the next append; an append that does not, leaves .old
\* alone; when there is no active file the rotation check changes nothing,
\* whatever the file system does.
C15_RotationReplacesOld ==
  /\ \A io \in IoOutcomes :
       rotateLogIfNeeded(Files(NoFile, fs.old), cfg, io) = Files(NoFile, fs.old)
  /\ cfg.loggingEnabled =>
       \A a \in LogInputs :
         LET r == log(fs, cfg, Uuid("a1b2c3d4", nextId + 1), now, a.operation, a.app,
                      a.target, a.before, a.after, a.metadata, "ok")
             appended == Append(fs.log.lines, Line(r.wrote[1]))
         IN /\ r.id = r.wrote[1].id
            /\ IF SumBytes(appended, 1, Len(appended)) > cfg.maxLogSizeMB * MB
                 THEN /\ ~r.fs.log.exists
                      /\ r.fs.old.exists
                      /\ r.fs.old.lines = appended
                 ELSE /\ r.fs.log = File(appended)
                      /\ r.fs.old = fs.old

\* an append rotated the log for the second time: there is no active file
\* and .old holds nothing of the first rotation
C15_Witness ==
  /\ last.op = "log"
  /\ last.kind = "id"
  /\ ~fs.log.exists
  /\ fs.old.exists
  /\ nextId >= 2
  /\ \A i \in DOMAIN fs.old.lines : fs.old.lines[i].e.id.n >= 2

\* the filters and limits a caller of readLogs may pass
QueryOptions ==
  {[Options(operation, app, limit) EXCEPT !.since = since] :
     operation \in {Undef, "delete"}, app \in {Undef, "notes"},
     limit \in {NoLimit, Limit(0), Limit(1), Limit(2)}, since \in {NoSince, Since(1)}}

\* the line satisfies every filter that is given
Matches(l, options) ==
  /\ options.operation # Undef => l.e.operation = options.operation
  /\ options.app # Undef => l.e.app = options.app
  /\ options.since.defined => l.e.timestamp >= options.since.t

\* logs holds the n newest lines of the active file that satisfy the
\* filters (all of them when there are fewer), newest first
NewestMatches(logs, options, n) ==
  LET lines == fs.log.lines
      M == {i \in DOMAIN lines : Matches(lines[i], options)}
      returned(i) == \E k \in DOMAIN logs : logs[k] = lines[i]
  IN /\ Len(logs) = Min(n, Cardinality(M))
     /\ \A k \in DOMAIN logs : \E i \in M : logs[k] = lines[i]
     /\ \A k1, k2 \in DOMAIN logs :
          k1 < k2 => logs[k1].e.timestamp >= logs[k2].e.timestamp /\ logs[k1] # logs[k2]
     /\ \A i \in M : ~returned(i) =>
          \A k \in DOMAIN logs : logs[k].e.timestamp >= lines[i].e.timestamp

PrefixHits(id) == {i \in DOMAIN fs.log.lines : StartsWith(fs.log.lines[i].e.id, id)}

\* C17 (as stated): getOperation(id) with an id of at least 8 characters that
\* is a prefix of several entry ids returns the first of them in the order
\* of the file, the earliest appended one.
C17_PrefixFindsEarliestAppended ==
  \A id \in IdArgs :
    id.len = PrefixLen /\ Cardinality(PrefixHits(id)) > 1 =>
      LET op == getOperation(fs, id, TRUE)
          first == CHOOSE i \in PrefixHits(id) : \A j \in PrefixHits(id) : i <= j
      IN op.found /\ op.log = fs.log.lines[first]

\* C18: when the file is read and written without error, cleanupOldLogs
\* removes exactly the entries stamped strictly before the cut-off (now
\* minus the retention days), keeps every other entry as it was, leaves
\* .old alone and returns the number of entries removed.
C18_PruneRemovesExactlyOlder ==
  \A cutoffDate \in CutoffDates :
    LET r == cleanupOldLogs(fs, cutoffDate, TRUE, TRUE)
        lines == fs.log.lines
        kept == r.fs.log.lines
        older == {i \in DOMAIN lines : lines[i].e.timestamp < cutoffDate}
    IN /\ ~r.threw
       /\ {kept[i] : i \in DOMAIN kept} = {lines[i] : i \in DOMAIN lines \ older}
       /\ Len(kept) = Len(lines) - Cardinality(older)
       /\ r.removedCount = Cardinality(older)
       /\ r.fs.old = fs.old

\* a cleanup removed entries and left others in the active file
C18_Witness ==
  /\ last.op = "cleanup"
  /\ last.kind = "removed"
  /\ fs.log.lines # <<>>
  /\ ~fs.old.exists
  /\ Len(fs.log.lines) < nextId

\* C19 (as stated): after a cleanup that removed at least one entry, the
\* entries left in the active file are in the same relative order as before.
C19_PrunePreservesOrder ==
  \A cutoffDate \in CutoffDates :
    LET r == cleanupOldLogs(fs, cutoffDate, TRUE, TRUE) IN
    r.removedCount > 0 =>
      r.fs.log.lines = SelectSeq(fs.log.lines, LAMBDA l : l.e.timestamp >= cutoffDate)

(***************************************************************************)
(* Properties of getRecoveryDetails over time                              *)
(***************************************************************************)
\* C20 (as stated): getRecoveryDetails(id) of an id that names an entry
\* returns the same result again after any step that is not a recovery, an
\* append included.
C20_DescribeStableWithoutRecovery ==
  [][last'.op # "recover" =>
       \A id \in IdArgs :
         getRecoveryDetails(fs, id, TRUE).found =>
           getRecoveryDetails(fs', id, TRUE) = getRecoveryDetails(fs, id, TRUE)]_vars

\* C20 (amended): getRecoveryDetails(id) with the full id of an entry returns
\* the same result after any step that leaves that entry in the active file
\* (whatever is appended, recovered or looked up in between); a rotation or
\* a cleanup that takes the entry out of the file ends this.
C20_DescribeStableWhileEntryStays ==
  [][\A i \in DOMAIN fs.log.lines :
       LET id == fs.log.lines[i].e.id IN
       (\E j \in DOMAIN fs'.log.lines : fs'.log.lines[j].e.id = id) =>
         getRecoveryDetails(fs', id, TRUE) = getRecoveryDetails(fs, id, TRUE)]_vars

\* the details of an entry were asked for on a file to which a newer entry
\* had been appended
C20_Witness ==
  /\ last.op = "details"
  /\ last.kind = "returned"
  /\ Len(fs.log.lines) >= 2
  /\ fs.log.lines[1].e.timestamp < fs.log.lines[2].e.timestamp

(***************************************************************************)
(* Properties of getRecoveryStats()                                        *)
(***************************************************************************)
RECURSIVE SumValues(_)
\* the sum of the values of a table
SumValues(f) ==
  IF DOMAIN f = {} THEN 0
  ELSE LET k == CHOOSE x \in DOMAIN f : TRUE
       IN f[k] + SumValues([x \in DOMAIN f \ {k} |-> f[x]])

\* C21: when the active file can be read, the statistics are computed over
\* at most the 1000 newest entries: totalOperations is the smaller of 1000
\* and the number of entries in the active file, recoverableOperations is
\* at most totalOperations, and the per-application counts and the per-kind
\* counts each sum to recoverableOperations.
C21_StatsOverNewestThousand ==
  LET r == getRecoveryStats(fs, TRUE) IN
  ~r.threw =>
    /\ r.totalOperations = Min(StatsLimit, Len(fs.log.lines))
    /\ r.recoverableOperations <= r.totalOperations
    /\ SumValues(r.byApp) = r.recoverableOperations
    /\ SumValues(r.byOperation) = r.recoverableOperations

\* the statistics were asked for while the active file held more than 1000
\* entries, some of them without a before snapshot
C21_Witness ==
  /\ last.op = "stats"
  /\ last.kind = "limit reached"
  /\ Len(fs.log.lines) > StatsLimit
  /\ \E i \in DOMAIN fs.log.lines : ~HasBefore(fs.log.lines[i])

(***************************************************************************)
(* Properties of the backends                                              *)
(***************************************************************************)
\* the delete calls of the three backends with one target and confirmation
DeleteResults(text, confirmText) ==
  UNION {NotesDelete(Ctx, text, confirmText, folder) : folder \in FolderArgs}
    \cup UNION {RemindersDelete(Ctx, text, confirmText, listName) : listName \in ListArgs}
    \cup CalendarDeleteEvent(Ctx, text, "2024-01-01 10:00", confirmText)

\* C22: a delete call on the Notes, Reminders or Calendar backend while
\* deletes are disabled, or with a confirmation text that differs from the
\* target text, throws before any automation command is issued and before
\* anything is logged (files as they were), and the tool dispatcher turns
\* the exception into an error response.
C22_RejectedDeleteTouchesNothing ==
  \A text \in Titles, confirmText \in ConfirmTexts :
    (~cfg.allowDelete \/ text # confirmText) =>
      \A r \in DeleteResults(text, confirmText) :
        /\ r.threw
        /\ Untouched(r)
        /\ BackendTrace("delete", r).kind = "error"

\* a Notes delete was refused for its confirmation text while deletes were
\* enabled, and the dispatcher answered with an error response
C22_Witness ==
  /\ last.op = "notes.delete"
  /\ last.kind = "error"
  /\ last.message = "Deletion cancelled: Confirmation title does not match."
  /\ cfg.allowDelete

\* the calls of the three update-type operations of the backends
UpdateResults ==
  UNION {NotesUpdate(Ctx, "Buy milk", "new content", folder) : folder \in FolderArgs}
    \cup UNION {RemindersUpdate(Ctx, "Buy milk", "Buy oat milk", Undef, listName)
                 : listName \in ListArgs}
    \cup RemindersComplete(Ctx, "Buy milk", "Tasks")

\* C23: while updates are disabled, every update-type operation of a
\* backend (Notes update, Reminders update, Reminders complete) throws
\* before it issues an automation command, and appends no entry of kind
\* update to the log.
C23_NoUpdateWhileDisabled ==
  ~cfg.allowUpdate =>
    \A r \in UpdateResults :
      /\ r.threw
      /\ r.ctx.execs = 0
      /\ \A i \in DOMAIN r.ctx.logged : r.ctx.logged[i].operation # "update"

(***************************************************************************)
(* Properties of AppleScriptRunner.execute                                 *)
(***************************************************************************)
\* an execute call is between its start and its end
ExecuteRunning == suspended.call = "execute" /\ suspended.phase \in {"osascript", "sleep"}

\* the execute call has returned output or thrown an error
ExecuteEnded == suspended.call = "execute" /\ suspended.phase \in {"returned", "thrown"}

C25_ReadersNeverThrow ==
  \A readOk \in BOOLEAN :
    LET listed == listRecoverableOperations(fs, NoOptions, readOk) IN
    /\ ~listed.threw
    /\ \A id \in IdArgs : ~getRecoveryDetails(fs, id, readOk).threw
    /\ readOk =>
         \A i \in DOMAIN fs.log.lines :
           LET l == fs.log.lines[i] IN
           (l.kind \notin {"garbage", "nodata"} /\ HasBefore(l)) =>
             \E j \in DOMAIN listed.entries : listed.entries[j] = l

(***************************************************************************)
(* Properties of the backend deletes                                       *)
(***************************************************************************)
\* C26: a backend delete whose automation commands fail appends nothing;
\* with logging enabled and a writable log, a delete that reports success
\* has issued its commands and appended exactly one entry of kind delete,
\* with a before snapshot and confirmed = true.
C26_DeleteLogsOnceAfterSuccess ==
  \A r \in DeleteResults("Buy milk", "Buy milk") :
    /\ r.threw => r.ctx.logged = <<>>
    /\ (~r.threw /\ cfg.loggingEnabled /\ ~r.ctx.writeFailed) =>
         /\ r.ctx.execs >= 1
         /\ Len(r.ctx.logged) = 1
         /\ r.ctx.logged[1].operation = "delete"
         /\ r.ctx.logged[1].before.t # "undefined"
         /\ r.ctx.logged[1].confirmed = TRUE

(***************************************************************************)
(* Properties that relate the listing, the statistics and the details      *)
(***************************************************************************)
\* C27: every entry that listRecoverableOperations returns, and so every
\* entry counted in recoverableOperations, is reported by
\* getRecoveryDetails(id) with canRecover = true, and recover(id, id) never
\* answers "Cannot recover" for it.
C27_ListedEntriesAreRecoverable ==
  \A options \in ListOptions :
    LET listed == listRecoverableOperations(fs, options, TRUE) IN
    \A i \in DOMAIN listed.entries :
      LET id == listed.entries[i].e.id IN
      /\ getRecoveryDetails(fs, id, TRUE).canRecover
      /\ \A o \in recover(Ctx, id, id) : o.message # "Cannot recover"

(***************************************************************************)
(* Properties of appended entries over time                                *)
(***************************************************************************)
\* the entries a file holds
Entries(file) == {file.lines[i].e : i \in DOMAIN file.lines}

\* C28 (as stated): after every step other than a cleanup, every entry that
\* was in the active file, and the entry the step appended, is found by
\* getOperation under its id.
C28_AppendedStaysRetrievable ==
  [][last'.op # "cleanup" =>
       \A e \in Entries(fs.log) \cup
                 ((Entries(fs'.log) \cup Entries(fs'.old))
                    \ (Entries(fs.log) \cup Entries(fs.old))) :
         LET op == getOperation(fs', e.id, TRUE) IN
         op.found /\ op.log.e = e]_vars

\* C28 (amended): after every step other than a cleanup, every entry that
\* was in the active file, and the entry the step appended, is either found
\* by getOperation under its id, or has been moved to the .old file by the
\* rotation that the append triggered.
C28_AppendedStaysUntilRotated ==
  [][last'.op # "cleanup" =>
       \A e \in Entries(fs.log) \cup
                 ((Entries(fs'.log) \cup Entries(fs'.old))
                    \ (Entries(fs.log) \cup Entries(fs.old))) :
         LET op == getOperation(fs', e.id, TRUE) IN
         \/ op.found /\ op.log.e = e
         \/ ~op.found /\ e \in Entries(fs'.old)]_vars

\* an append returned the id of an entry that getOperation does not find:
\* the entry is in the .old file, together with an older one
C28_Witness ==
  /\ last.op = "log"
  /\ last.kind = "id"
  /\ \E e \in Entries(fs.old) :
       /\ e.id.n = nextId
       /\ ~getOperation(fs, e.id, TRUE).found
  /\ \E e \in Entries(fs.old) : e.id.n < nextId

(***************************************************************************)
(* Properties of cleanupOldLogs next to concurrent appends                 *)
(***************************************************************************)
\* the step is the suspended cleanupOldLogs() going on to its end
ResumeStep ==
  /\ suspended.call = "cleanupOldLogs"
  /\ suspended.phase = "await readLogs"
  /\ suspended'.phase \in {"returned", "thrown"}

\* C29 (as stated): when a cleanup that other calls have run alongside
\* ends, every entry of the active file that is inside the retention window
\* is still in the active file or in .old; and an append never takes an
\* earlier entry of the active file off the disk.
C29_PruneKeepsConcurrentAppends ==
  [][/\ ResumeStep =>
          \A e \in Entries(fs.log) :
            e.timestamp >= suspended.cutoffDate =>
              e \in Entries(fs'.log) \cup Entries(fs'.old)
     /\ last'.op = "log" =>
          Entries(fs.log) \subseteq Entries(fs'.log) \cup Entries(fs'.old)]_vars

\* C29 (amended): when such a cleanup ends, every entry inside the retention
\* window that the cleanup had read is still in the active file; an entry
\* appended after the cleanup read the file is lost exactly when the cleanup
\* removed something and so rewrote the file; a cleanup that removes
\* nothing leaves the files alone; and an append never takes an earlier
\* entry of the active file off the disk.
C29_PruneKeepsWhatItRead ==
  [][/\ ResumeStep =>
          /\ \A e \in Entries(fs.log) :
               e.timestamp >= suspended.cutoffDate =>
                 IF e \in Entries(File(suspended.allLogs)) \/ last'.kind # "removed"
                   THEN e \in Entries(fs'.log)
                   ELSE e \notin Entries(fs'.log) \cup Entries(fs'.old)
          /\ last'.kind # "removed" => fs' = fs
     /\ last'.op = "log" =>
          Entries(fs.log) \subseteq Entries(fs'.log) \cup Entries(fs'.old)]_vars

\* a cleanup that had read one entry removed it, and the entry appended
\* while the cleanup waited, inside the retention window, is neither in the
\* active file nor in .old
C29_Witness ==
  /\ suspended.call = "cleanupOldLogs"
  /\ suspended.phase = "returned"
  /\ last.op = "cleanup"
  /\ last.kind = "removed"
  /\ Len(suspended.allLogs) = 1
  /\ suspended.allLogs[1].e.timestamp < suspended.cutoffDate
  /\ now >= suspended.cutoffDate
  /\ nextId = 2
  /\ ~fs.old.exists
  /\ \A e \in Entries(fs.log) : e.id.n # 2

(***************************************************************************)
(* Properties of a repeated recover                                        *)
(***************************************************************************)
\* C30: once a recovery of an entry has succeeded (its synthetic create
\* entry is in the log), another recover(id, id) for the same entry issues
\* no automation command, calls no backend and appends no entry: the item
\* is not restored or re-created a second time.
C30_SecondRecoverDoesNothing ==
  \A e \in Entries(fs.log) :
    (\E x \in Entries(fs.log) : IsSyntheticOf(x, e) /\ x.id # e.id) =>
      \A o \in recover(Ctx, e.id, e.id) :
        /\ o.ctx.execs = 0
        /\ o.ctx.calls = <<>>
        /\ o.ctx.logged = <<>>

====
